---- MODULE Spec2Model ----
(***************************************************************************)
(* CSE Resource Sharing Platform API (src/main.py, src/schemas.py).        *)
(*                                                                         *)
(* The model covers the request handlers login, create_resource and        *)
(* approve_resource, the Broadcaster (subscribe / unsubscribe / broadcast) *)
(* and the /events stream generator.                                       *)
(*                                                                         *)
(* Python values are represented as follows.                               *)
(*   Optional[T]   the empty tuple << >> for None, << v >> for a value v   *)
(*   dict          a record                                                *)
(*   list          a sequence                                              *)
(*   ObjectId      a natural number; str(ObjectId) is the entry of OidHex  *)
(*   datetime      a natural number; isoformat() is the entry of IsoText   *)
(*   asyncio.Queue the identity of the stream that created it; its content *)
(*                 is queues[q]                                            *)
(***************************************************************************)
EXTENDS Integers, Sequences, FiniteSets, TLC

(***************************************************************************)
(* Bounds of the model.                                                    *)
(***************************************************************************)
\* number of Resource documents the store may hold
MaxRes == 1
\* number of /events streams that may be opened
MaxStreams == 2

\* number of unsubscribe calls made for one queue when the Broadcaster is
\* driven directly
MaxUnsub == 2

(***************************************************************************)
(* Program constants.                                                      *)
(***************************************************************************)
\* Resource.semester: Field(..., ge=1, le=8)
SemesterMin == 1
SemesterMax == 8

\* User.semester: Field(None, ge=1, le=8)
UserSemesterMin == 1
UserSemesterMax == 8

None == << >>
Some(v) == << v >>

(***************************************************************************)
(* Request inputs.                                                         *)
(***************************************************************************)
Titles == {"Notes"}
\* 3 passes Field(ge=1, le=8), 9 does not
Semesters == {3, 9}
Subjects == {"OS"}
Uploaders == {"a@x.com"}
Approvers == {"t@x.com", "u@x.com"}

\* str(ObjectId(k)): the 24 hex digit text of the k-th identifier
OidHex == << "650000000000000000000001", "650000000000000000000002",
             "650000000000000000000003", "650000000000000000000004" >>
\* a path parameter that is no 24 hex digit text
MalformedId == "not-an-object-id"
\* the path parameters tried: every stored id, one unknown id, one malformed
ResourceIdParams == { OidHex[k] : k \in 1..(MaxRes + 1) } \cup { MalformedId }

Streams == 1..MaxStreams

CreateResourceRequests ==
  [ title : Titles, description : {None}, semester : Semesters,
    subject : Subjects, tags : {<< >>}, file_url : {None},
    content_url : {None}, uploaded_by : Uploaders, uploader_name : {None} ]

ApproveRequests == [ approved_by : Approvers ]

LoginNames == {"Ann", "Bea"}
LoginEmails == {"a@x.com", "b@x.com"}
\* "root" is no Role of schemas.py
LoginRoles == {"student", "root"}
\* 9 is outside User.semester's ge=1, le=8
LoginSemesters == {None, Some(3), Some(9)}

LoginRequests ==
  [ name : LoginNames, email : LoginEmails, role : LoginRoles,
    semester : LoginSemesters ]

\* resources uploaded while the listings are exercised: two subjects
ListedSubjects == {"OS", "DB"}
ListedCreateRequests ==
  [ title : Titles, description : {None}, semester : Semesters,
    subject : ListedSubjects, tags : {<< >>}, file_url : {None},
    content_url : {None}, uploaded_by : Uploaders, uploader_name : {None} ]

\* query parameters of GET /resources and GET /resources/pending
QuerySemesters == {None, Some(3), Some(5)}
\* "" is a subject given as an empty text
QuerySubjects == {None, Some(""), Some("OS")}
QueryStatuses == {"approved", "pending"}
QueryUploaders == {None, Some("z@x.com")}
QueryLimits == {Some(1), Some(100)}

ListResourcesRequests ==
  [ semester : QuerySemesters, subject : QuerySubjects, status : QueryStatuses,
    uploaded_by : QueryUploaders, limit : QueryLimits ]

ListPendingRequests == [ semester : QuerySemesters, subject : QuerySubjects ]

\* the clients whose requests are in flight at the same time
Clients == {"c1", "c2"}

\* logins that race: one email, two names
RacingLoginRequests ==
  [ name : LoginNames, email : {"a@x.com"}, role : {"student"},
    semester : {None, Some(3)} ]

VARIABLES
  db,            \* "mongo" when the store is configured, "None" otherwise
  resource,      \* collection "resource": documents in insertion order
  notification,  \* collection "notification": documents in insertion order
  user,          \* collection "user": documents in insertion order
  lastLogin,     \* history: the last login request served, by email
  subscribers,   \* Broadcaster.subscribers, a list of queues
  queues,        \* content of each asyncio.Queue, by the stream that made it
  pc,            \* position of each /events generator
  delivered,     \* chunks each /events generator has yielded
  resp,          \* the last request served and its HTTP answer
  bcasts,        \* history: the messages passed to broadcast, in call order
  snapshot,      \* history: list(self.subscribers) of the last broadcast
  putFailed,     \* history: queues whose put raised in the last broadcast
  subAt,         \* history: Len(bcasts) when the stream's subscribe returned
  unsubCalls,    \* history: times unsubscribe ran for the stream's queue
  tasks          \* requests in flight when served concurrently, by client

vars == << db, resource, notification, user, lastLogin, subscribers, queues, pc,
           delivered, resp, bcasts, snapshot, putFailed, subAt, unsubCalls,
           tasks >>

authVars == << user, lastLogin >>
storeVars == << resource, notification, authVars >>
hubVars == << subscribers, queues, pc, delivered, subAt, unsubCalls >>
castVars == << bcasts, snapshot, putFailed >>

(***************************************************************************)
(* Utilities (main.py, "Utilities").                                       *)
(***************************************************************************)
IsObjectIdText(s) == \E k \in 1..Len(OidHex) : OidHex[k] = s

\* bson.ObjectId(text) for a well-formed text
ObjectId(s) == CHOOSE k \in 1..Len(OidHex) : OidHex[k] = s

\* str(ObjectId)
str(id) == OidHex[id]

\* (mutant) no exception for a malformed text: it becomes an id no document has
oid_lenient(id_str) ==
  [ ok |-> TRUE,
    value |-> IF IsObjectIdText(id_str) THEN ObjectId(id_str) ELSE 0 ]

\* oid(id_str): the ObjectId, or HTTPException(400, "Invalid id")
oid(id_str) ==
  IF IsObjectIdText(id_str)
    THEN [ ok |-> TRUE, value |-> ObjectId(id_str) ]
    ELSE [ ok |-> FALSE, value |-> 0 ]

\* datetime.now(timezone.utc): the model has one instant
utcnow == 1

\* datetime.isoformat()
IsoText == << "2024-01-01T00:00:00+00:00" >>
isoformat(t) == IsoText[t]

\* the keys whose values are datetimes when set
DatetimeKeys == { "approved_at", "updated_at" }

\* clean(doc): "_id" becomes the text "id", datetimes become ISO text
clean(doc) ==
  [ k \in (DOMAIN doc \ {"_id"}) \cup {"id"} |->
      IF k = "id" THEN str(doc._id)
      ELSE IF k \in DatetimeKeys
        THEN (IF doc[k] = None THEN None ELSE Some(isoformat(doc[k][1])))
      ELSE doc[k] ]

(***************************************************************************)
(* The document store (pymongo collection operations used by main.py, and  *)
(* database.create_document).                                              *)
(***************************************************************************)
\* a document matches a filter {key: value, ...}
Matches(doc, filter) == \A k \in DOMAIN filter : doc[k] = filter[k]

\* collection.find_one(filter): the first match in insertion order, or None
find_one(coll, filter) ==
  IF \E i \in 1..Len(coll) : Matches(coll[i], filter)
    THEN Some(coll[CHOOSE i \in 1..Len(coll) :
                     /\ Matches(coll[i], filter)
                     /\ \A j \in 1..(i - 1) : ~Matches(coll[j], filter)])
    ELSE None

\* a dict with the keys of upd set to upd's values ("$set")
SetFields(doc, upd) ==
  [ k \in DOMAIN doc \cup DOMAIN upd |->
      IF k \in DOMAIN upd THEN upd[k] ELSE doc[k] ]

\* collection.update_one(filter, {"$set": upd}): the first match only
update_one(coll, filter, upd) ==
  LET hit == { i \in 1..Len(coll) : Matches(coll[i], filter) }
  IN  IF hit = {} THEN coll
      ELSE LET first == CHOOSE i \in hit : \A j \in hit : i <= j
           IN  [ coll EXCEPT ![first] = SetFields(@, upd) ]

\* create_document(collection, data): insert with a fresh _id, return its text
NewId(coll) == Len(coll) + 1
create_document(coll, data) ==
  [ coll |-> Append(coll, SetFields(data, [ _id |-> NewId(coll) ])),
    id   |-> str(NewId(coll)) ]

\* the first n entries of a list
RECURSIVE Take(_, _)
Take(list, n) ==
  IF n = 0 \/ list = << >> THEN << >>
  ELSE << Head(list) >> \o Take(Tail(list), n - 1)

\* the documents of a collection that match a filter, in insertion order
RECURSIVE Find(_, _)
Find(coll, filter) ==
  IF coll = << >> THEN << >>
  ELSE IF Matches(Head(coll), filter)
    THEN << Head(coll) >> \o Find(Tail(coll), filter)
    ELSE Find(Tail(coll), filter)

\* get_documents(collection, filter, limit): the matches, limit at most
get_documents(coll, filter, limit) ==
  IF limit = None THEN Find(coll, filter)
  ELSE Take(Find(coll, filter), limit[1])

(***************************************************************************)
(* Schemas (schemas.py).                                                   *)
(***************************************************************************)
\* Role = Literal["student", "teacher", "admin"]
Role == {"student", "teacher", "admin"}

\* User(...): the field constraints of the schema
UserSchemaValid(role, semester) ==
  /\ role \in Role
  /\ semester # None =>
       semester[1] >= UserSemesterMin /\ semester[1] <= UserSemesterMax

\* Resource(...): the field constraints of the schema
ResourceValid(semester) == semester >= SemesterMin /\ semester <= SemesterMax

\* Resource(..., status="pending").model_dump()
ResourceSchema(payload) ==
  [ title         |-> payload.title,
    description   |-> payload.description,
    semester      |-> payload.semester,
    subject       |-> payload.subject,
    tags          |-> payload.tags,
    file_url      |-> payload.file_url,
    content_url   |-> payload.content_url,
    uploaded_by   |-> payload.uploaded_by,
    uploader_name |-> payload.uploader_name,
    status        |-> "pending",
    approved_by   |-> None,
    approved_at   |-> None ]

\* (mutant) the reference to the resource is left out
NotificationSchema_no_ref(type, message, resource_id, created_by, semester, subject) ==
  [ type        |-> type,
    message     |-> message,
    resource_id |-> None,
    created_by  |-> Some(created_by),
    semester    |-> Some(semester),
    subject     |-> Some(subject) ]

\* Notification(...).model_dump()
NotificationSchema(type, message, resource_id, created_by, semester, subject) ==
  [ type        |-> type,
    message     |-> message,
    resource_id |-> Some(resource_id),
    created_by  |-> Some(created_by),
    semester    |-> Some(semester),
    subject     |-> Some(subject) ]

(***************************************************************************)
(* Broadcaster (main.py, "Server-Sent Events broadcaster").                *)
(***************************************************************************)
ConnectedEvent == [ event |-> "connected" ]

\* asyncio.Queue.put on an unbounded queue: the item goes to the back
put(content, item) == Append(content, item)

\* (mutant) a stack instead of a queue: the back item leaves
get_lifo(content) ==
  [ item |-> content[Len(content)],
    rest |-> SubSeq(content, 1, Len(content) - 1) ]

\* asyncio.Queue.get on a queue that holds an item: the front one leaves
get(content) == [ item |-> Head(content), rest |-> Tail(content) ]

\* list.remove(q): drops the first occurrence; ValueError when absent
RECURSIVE list_remove(_, _)
list_remove(list, q) ==
  IF list = << >> THEN [ list |-> << >>, found |-> FALSE ]
  ELSE IF Head(list) = q THEN [ list |-> Tail(list), found |-> TRUE ]
  ELSE LET rest == list_remove(Tail(list), q)
       IN  [ list |-> << Head(list) >> \o rest.list, found |-> rest.found ]

\* (mutant) self.subscribers.pop(): the last queue goes, whatever q is
unsubscribe_pop(subs, q) ==
  IF subs = << >> THEN subs ELSE SubSeq(subs, 1, Len(subs) - 1)

\* Broadcaster.unsubscribe(q): remove, a ValueError is passed over
unsubscribe(subs, q) == list_remove(subs, q).list

\* (mutant) no try/except round the remove: the ValueError leaves the method
unsubscribe_call_unguarded(subs, q) ==
  [ subscribers |-> list_remove(subs, q).list,
    raised      |-> ~list_remove(subs, q).found ]

\* one call broadcaster.unsubscribe(q), as its caller sees it: the list
\* afterwards, and whether an exception left the method
unsubscribe_call(subs, q) ==
  [ subscribers |-> unsubscribe(subs, q), raised |-> FALSE ]

\* (mutant) the hello event is left out
subscribe_no_hello(subs, qs, q) ==
  [ subscribers |-> Append(subs, q), queues |-> qs ]

\* Broadcaster.subscribe(): new queue q, registered, "connected" put on it
subscribe(subs, qs, q) ==
  [ subscribers |-> Append(subs, q),
    queues      |-> [ qs EXCEPT ![q] = put(@, ConnectedEvent) ] ]

Range(s) == { s[i] : i \in 1..Len(s) }

\* (mutant) no try/except round the put: the first failure ends the loop
RECURSIVE broadcast_loop_uncaught(_, _, _, _)
broadcast_loop_uncaught(snap, qs, message, failing) ==
  IF snap = << >> THEN [ queues |-> qs, raised |-> FALSE ]
  ELSE LET q == Head(snap)
       IN  IF q \in failing
             THEN [ queues |-> qs, raised |-> TRUE ]
             ELSE broadcast_loop_uncaught(Tail(snap),
                                          [ qs EXCEPT ![q] = put(@, message) ],
                                          message, failing)

\* the loop of Broadcaster.broadcast over the snapshot: put on each queue in
\* turn; a put that raises (q \in failing) is caught and the loop goes on
RECURSIVE broadcast_loop(_, _, _, _)
broadcast_loop(snap, qs, message, failing) ==
  IF snap = << >> THEN [ queues |-> qs, raised |-> FALSE ]
  ELSE LET q == Head(snap)
       IN  IF q \in failing
             THEN broadcast_loop(Tail(snap), qs, message, failing)
             ELSE broadcast_loop(Tail(snap),
                                 [ qs EXCEPT ![q] = put(@, message) ],
                                 message, failing)

\* (mutant) a return inside the loop: only the first subscriber is served
broadcast_first_only(subs, qs, message, failing) ==
  broadcast_loop(IF subs = << >> THEN subs ELSE << Head(subs) >>, qs,
                 message, failing)

\* (mutant) the failures are collected and raised once the loop is over
broadcast_reraise(subs, qs, message, failing) ==
  [ queues |-> broadcast_loop(subs, qs, message, failing).queues,
    raised |-> failing \cap Range(subs) # {} ]

\* Broadcaster.broadcast(message): iterates over list(self.subscribers)
broadcast(subs, qs, message, failing) ==
  broadcast_loop(subs, qs, message, failing)

(***************************************************************************)
(* Initial state: module import; the store is configured or not.           *)
(***************************************************************************)
\* resp while no answer is on its way to a client
NoRequest == [ op |-> "none", code |-> 0 ]
\* the event loop is free to run the next handler or generator step
Idle == resp = NoRequest

\* tasks[c] while client c has no request in flight
NoTask == [ pc |-> "none" ]

Init ==
  /\ db \in { "mongo", "None" }
  /\ resource = << >>
  /\ notification = << >>
  /\ user = << >>
  /\ lastLogin = [ e \in LoginEmails |-> None ]
  /\ subscribers = << >>
  /\ queues = [ s \in Streams |-> << >> ]
  /\ pc = [ s \in Streams |-> "new" ]
  /\ delivered = [ s \in Streams |-> << >> ]
  /\ resp = NoRequest
  /\ bcasts = << >>
  /\ snapshot = << >>
  /\ putFailed = {}
  /\ subAt = [ s \in Streams |-> 0 ]
  /\ unsubCalls = [ s \in Streams |-> 0 ]
  /\ tasks = [ c \in Clients |-> NoTask ]

(***************************************************************************)
(* HTTP answers.                                                           *)
(***************************************************************************)
\* a handler returned a document: FastAPI answers 200 with it
Ok(op, request, doc) ==
  [ op |-> op, request |-> request, code |-> 200, body |-> Some(doc) ]

\* a handler raised: HTTPException(code), or 500 for any other exception
Failed(op, request, code) ==
  [ op |-> op, request |-> request, code |-> code, body |-> None ]

\* database.create_document / get_documents without a configured store
StoreUnavailable == 503

(***************************************************************************)
(* POST /auth/login                                                        *)
(***************************************************************************)
\* the document login writes
UserDoc(payload) ==
  [ name       |-> payload.name,
    email      |-> payload.email,
    role       |-> payload.role,
    semester   |-> payload.semester,
    department |-> "CSE",
    is_active  |-> TRUE,
    updated_at |-> Some(utcnow) ]

\* (mutant) the user is looked up by name
LoginLookup_by_name(payload) == [ name |-> payload.name ]

\* the filter of users.find_one({"email": payload.email})
LoginLookup(payload) == [ email |-> payload.email ]

login(payload) ==
  IF db = "None"
    THEN /\ resp' = Failed("login", payload, 503)
         /\ UNCHANGED << db, tasks, storeVars, hubVars, castVars >>
  ELSE
    LET existing == find_one(user, LoginLookup(payload))
        doc      == UserDoc(payload)
    IN  /\ IF existing # None
             THEN /\ user' = update_one(user, [ _id |-> existing[1]._id ], doc)
                  /\ resp' = Ok("login", payload,
                                clean(SetFields(existing[1], doc)))
             ELSE LET created == create_document(user, doc)
                      new_doc == find_one(created.coll,
                                          [ _id |-> ObjectId(created.id) ])
                  IN  /\ user' = created.coll
                      /\ resp' = Ok("login", payload, clean(new_doc[1]))
        /\ lastLogin' = [ lastLogin EXCEPT ![payload.email] = Some(payload) ]
        /\ UNCHANGED << db, tasks, resource, notification, hubVars, castVars >>

(***************************************************************************)
(* POST /resources                                                         *)
(***************************************************************************)
\* the message text f"New resource pending: {title}"
CreatedMessage(title) == << "New resource pending: ", title >>
\* the message text f"Resource approved: {title}"
ApprovedMessage(title) == << "Resource approved: ", title >>

\* await broadcaster.broadcast(...) stands in the handler without a try:
\* the handler answers with the document only if broadcast returned
AfterBroadcast(op, request, raised, doc) ==
  IF raised THEN Failed(op, request, 500) ELSE Ok(op, request, clean(doc))

create_resource(payload, failing) ==
  IF ~ResourceValid(payload.semester)
    THEN \* ResourceSchema(...) raises pydantic ValidationError in the handler
         /\ resp' = Failed("create_resource", payload, 500)
         /\ UNCHANGED << db, tasks, storeVars, hubVars, castVars >>
  ELSE IF db = "None"
    THEN \* create_document raises
         /\ resp' = Failed("create_resource", payload, StoreUnavailable)
         /\ UNCHANGED << db, tasks, storeVars, hubVars, castVars >>
  ELSE
    /\ Len(resource) < MaxRes
    /\ LET data    == ResourceSchema(payload)
           created == create_document(resource, data)
           rid     == created.id
           notif   == NotificationSchema("resource_created",
                        CreatedMessage(data.title), rid, data.uploaded_by,
                        data.semester, data.subject)
           message == [ event |-> "resource_created", resource_id |-> rid,
                        title |-> data.title ]
           sent    == broadcast(subscribers, queues, message, failing)
           doc     == find_one(created.coll, [ _id |-> ObjectId(rid) ])
       IN  /\ resource' = created.coll
           /\ notification' = create_document(notification, notif).coll
           /\ queues' = sent.queues
           /\ bcasts' = Append(bcasts, message)
           /\ snapshot' = subscribers
           /\ putFailed' = failing
           /\ resp' = AfterBroadcast("create_resource", payload, sent.raised,
                                     doc[1])
           /\ UNCHANGED << db, tasks, authVars, subscribers, pc, delivered, subAt,
                           unsubCalls >>

(***************************************************************************)
(* POST /resources/{resource_id}/approve                                   *)
(***************************************************************************)
\* (mutant) the status is compared with a text the store never holds
AlreadyApproved_typo(doc) == doc.status = "Approved"

\* (mutant) the early return for an approved resource is left out
AlreadyApproved_never(doc) == FALSE

\* if doc.get("status") == "approved"
AlreadyApproved(doc) == doc.status = "approved"

\* (mutant) the approval writes another status of the schema
ApprovalUpdate_rejected(payload) ==
  [ status      |-> "rejected",
    approved_by |-> Some(payload.approved_by),
    approved_at |-> Some(utcnow),
    updated_at  |-> Some(utcnow) ]

\* (mutant) the "$set" names the moderator and leaves the status out
ApprovalUpdate_by_only(payload) ==
  [ approved_by |-> Some(payload.approved_by),
    approved_at |-> Some(utcnow),
    updated_at  |-> Some(utcnow) ]

\* the "$set" of the approval
ApprovalUpdate(payload) ==
  [ status      |-> "approved",
    approved_by |-> Some(payload.approved_by),
    approved_at |-> Some(utcnow),
    updated_at  |-> Some(utcnow) ]

approve_resource(resource_id, payload, failing) ==
  LET id   == oid(resource_id)
      doc  == find_one(resource, [ _id |-> id.value ])
  IN
  IF db = "None"
    THEN \* db["resource"] on None raises TypeError
         /\ resp' = Failed("approve_resource", payload, 500)
         /\ UNCHANGED << db, tasks, storeVars, hubVars, castVars >>
  ELSE IF ~id.ok
    THEN /\ resp' = Failed("approve_resource", payload, 400)
         /\ UNCHANGED << db, tasks, storeVars, hubVars, castVars >>
  ELSE IF doc = None
    THEN /\ resp' = Failed("approve_resource", payload, 404)
         /\ UNCHANGED << db, tasks, storeVars, hubVars, castVars >>
  ELSE IF AlreadyApproved(doc[1])
    THEN /\ resp' = Ok("approve_resource", payload, clean(doc[1]))
         /\ UNCHANGED << db, tasks, storeVars, hubVars, castVars >>
  ELSE
    LET rcol    == update_one(resource, [ _id |-> doc[1]._id ],
                              ApprovalUpdate(payload))
        updated == find_one(rcol, [ _id |-> doc[1]._id ])[1]
        notif   == NotificationSchema("resource_approved",
                     ApprovedMessage(updated.title), str(updated._id),
                     payload.approved_by, updated.semester, updated.subject)
        message == [ event |-> "resource_approved",
                     resource_id |-> str(updated._id) ]
        sent    == broadcast(subscribers, queues, message, failing)
    IN  /\ resource' = rcol
        /\ notification' = create_document(notification, notif).coll
        /\ queues' = sent.queues
        /\ bcasts' = Append(bcasts, message)
        /\ snapshot' = subscribers
        /\ putFailed' = failing
        /\ resp' = AfterBroadcast("approve_resource", payload, sent.raised,
                                  updated)
        /\ UNCHANGED << db, tasks, authVars, subscribers, pc, delivered, subAt,
                        unsubCalls >>

(***************************************************************************)
(* GET /resources and GET /resources/pending                               *)
(***************************************************************************)
\* a dict with no key
EmptyDict == << >>
\* q[key] = value
With(q, key, value) == (key :> value) @@ q

\* "if subject:" and the like: a text that is given and not empty
Truthy(text) == text # None /\ text # Some("")

\* the filter list_resources builds from its query parameters
ListResourcesQuery(semester, subject, status, uploaded_by) ==
  LET q1 == IF semester # None
              THEN With(EmptyDict, "semester", semester[1]) ELSE EmptyDict
      q2 == IF Truthy(subject) THEN With(q1, "subject", subject[1]) ELSE q1
      q3 == IF status # "" THEN With(q2, "status", status) ELSE q2
  IN  IF Truthy(uploaded_by) THEN With(q3, "uploaded_by", uploaded_by[1])
      ELSE q3

\* [clean(d) for d in docs]
CleanAll(docs) == [ i \in 1..Len(docs) |-> clean(docs[i]) ]

list_resources(request) ==
  /\ resp' =
       IF db = "None"
         THEN Failed("list_resources", request, 503)
         ELSE Ok("list_resources", request,
                 CleanAll(get_documents(resource,
                            ListResourcesQuery(request.semester,
                              request.subject, request.status,
                              request.uploaded_by),
                            request.limit)))
  /\ UNCHANGED << db, tasks, storeVars, hubVars, castVars >>

\* list_pending(...): get_documents("resource", q, 200)
PendingLimit == 200

\* (mutant) the status is left out of the filter
ListPendingQuery_any_status(semester, subject) ==
  LET q1 == IF semester # None
              THEN With(EmptyDict, "semester", semester[1]) ELSE EmptyDict
  IN  IF Truthy(subject) THEN With(q1, "subject", subject[1]) ELSE q1

\* the filter list_pending builds from its query parameters
ListPendingQuery(semester, subject) ==
  LET q0 == With(EmptyDict, "status", "pending")
      q1 == IF semester # None THEN With(q0, "semester", semester[1]) ELSE q0
  IN  IF Truthy(subject) THEN With(q1, "subject", subject[1]) ELSE q1

list_pending(request) ==
  /\ resp' =
       IF db = "None"
         THEN \* get_documents raises
              Failed("list_pending", request, StoreUnavailable)
         ELSE Ok("list_pending", request,
                 CleanAll(get_documents(resource,
                            ListPendingQuery(request.semester, request.subject),
                            Some(PendingLimit))))
  /\ UNCHANGED << db, tasks, storeVars, hubVars, castVars >>

(***************************************************************************)
(* GET /events: the generator behind the StreamingResponse.                *)
(* pc = "new": not started; "open": suspended inside the while loop;       *)
(* "done": finished, its queue dropped with it.                            *)
(***************************************************************************)
\* the chunk f"data: {msg}\n\n"
Chunk(msg) == << "data: ", msg, "\n\n" >>

\* q = await broadcaster.subscribe(); queues are numbered as they are made
OpenStream(s) ==
  /\ Idle
  /\ pc[s] = "new"
  /\ \A t \in 1..(s - 1) : pc[t] # "new"
  /\ LET sub == subscribe(subscribers, queues, s)
     IN  /\ subscribers' = sub.subscribers
         /\ queues' = sub.queues
  /\ pc' = [ pc EXCEPT ![s] = "open" ]
  /\ subAt' = [ subAt EXCEPT ![s] = Len(bcasts) ]
  /\ UNCHANGED << db, tasks, storeVars, delivered, resp, castVars, unsubCalls >>

\* msg = await q.get(); yield f"data: {msg}\n\n"
TakeEvent(s) ==
  /\ Idle
  /\ pc[s] = "open"
  /\ queues[s] # << >>
  /\ LET got == get(queues[s])
     IN  /\ queues' = [ queues EXCEPT ![s] = got.rest ]
         /\ delivered' = [ delivered EXCEPT ![s] = Append(@, Chunk(got.item)) ]
  /\ UNCHANGED << db, tasks, storeVars, subscribers, pc, resp, castVars, subAt,
                  unsubCalls >>

\* try: while True: ... finally: broadcaster.unsubscribe(q)
\* how = "cancelled": CancelledError raised in q.get() on client disconnect
\* how = "error":     an exception raised inside the loop
\* how = "closed":    the generator is closed at its yield
ExitKinds == { "cancelled", "error", "closed" }

\* (mutant) "except asyncio.CancelledError" in place of "finally"
stream_exit_cancel_only(subs, q, how) ==
  IF how = "cancelled"
    THEN [ subscribers |-> unsubscribe(subs, q), calls |-> 1 ]
    ELSE [ subscribers |-> subs, calls |-> 0 ]

stream_exit(subs, q, how) ==
  [ subscribers |-> unsubscribe(subs, q), calls |-> 1 ]

ExitStream(s, how) ==
  /\ Idle
  /\ pc[s] = "open"
  /\ LET out == stream_exit(subscribers, s, how)
     IN  /\ subscribers' = out.subscribers
         /\ unsubCalls' = [ unsubCalls EXCEPT ![s] = @ + out.calls ]
  /\ pc' = [ pc EXCEPT ![s] = "done" ]
  /\ queues' = [ queues EXCEPT ![s] = << >> ]
  /\ delivered' = [ delivered EXCEPT ![s] = << >> ]
  /\ subAt' = [ subAt EXCEPT ![s] = 0 ]
  /\ UNCHANGED << db, tasks, storeVars, resp, castVars >>

CancelStream(s) == ExitStream(s, "cancelled")
FailStream(s) == ExitStream(s, "error")
CloseStream(s) == ExitStream(s, "closed")

(***************************************************************************)
(* The handler's return value is sent to the client as the response.       *)
(***************************************************************************)
Respond ==
  /\ ~Idle
  /\ resp' = NoRequest
  /\ UNCHANGED << db, tasks, storeVars, hubVars, castVars >>

(***************************************************************************)
(* The program: requests are served one at a time on the event loop, and   *)
(* no put on an unbounded asyncio.Queue raises.                            *)
(***************************************************************************)
CreateResource ==
  /\ Idle
  /\ \E p \in CreateResourceRequests : create_resource(p, {})

ApproveResource ==
  /\ Idle
  /\ \E id \in ResourceIdParams, p \in ApproveRequests :
       approve_resource(id, p, {})

Next ==
  \/ CreateResource
  \/ ApproveResource
  \/ \E s \in Streams : OpenStream(s)
  \/ \E s \in Streams : TakeEvent(s)
  \/ \E s \in Streams : CancelStream(s)
  \/ \E s \in Streams : FailStream(s)
  \/ \E s \in Streams : CloseStream(s)
  \/ Respond

Spec == Init /\ [][Next]_vars

(***************************************************************************)
(* Logins served one after another.                                        *)
(***************************************************************************)
Login ==
  /\ Idle
  /\ \E p \in LoginRequests : login(p)

LoginNext ==
  \/ Login
  \/ Respond

LoginSpec == Init /\ [][LoginNext]_vars

(***************************************************************************)
(* Uploads, approvals and listings served one after another, with no       *)
(* stream open.                                                            *)
(***************************************************************************)
CreateListed ==
  /\ Idle
  /\ \E p \in ListedCreateRequests : create_resource(p, {})

ListResources ==
  /\ Idle
  /\ \E r \in ListResourcesRequests : list_resources(r)

ListPending ==
  /\ Idle
  /\ \E r \in ListPendingRequests : list_pending(r)

ListNext ==
  \/ CreateListed
  \/ ApproveResource
  \/ ListResources
  \/ ListPending
  \/ Respond

ListSpec == Init /\ [][ListNext]_vars

(***************************************************************************)
(* The Broadcaster driven through its methods: subscribe by the streams,   *)
(* broadcast by create_resource, and unsubscribe called for any queue at   *)
(* any time, registered or not, up to MaxUnsub times each.                 *)
(***************************************************************************)
\* a method call returned, or an exception left it
Returned(op, arg) == [ op |-> op, request |-> arg, code |-> 0, raised |-> FALSE ]
Raised(op, arg) == [ op |-> op, request |-> arg, code |-> 0, raised |-> TRUE ]

Unsubscribe(q) ==
  /\ Idle
  /\ unsubCalls[q] < MaxUnsub
  /\ LET out == unsubscribe_call(subscribers, q)
     IN  /\ subscribers' = out.subscribers
         /\ resp' = IF out.raised THEN Raised("unsubscribe", q)
                    ELSE Returned("unsubscribe", q)
  /\ unsubCalls' = [ unsubCalls EXCEPT ![q] = @ + 1 ]
  /\ UNCHANGED << db, tasks, storeVars, queues, pc, delivered, subAt, castVars >>

HubNext ==
  \/ \E s \in Streams : OpenStream(s)
  \/ \E q \in Streams : Unsubscribe(q)
  \/ CreateResource
  \/ Respond

HubSpec == Init /\ [][HubNext]_vars

(***************************************************************************)
(* The program started without a configured store: database.db is None.    *)
(***************************************************************************)
NoStoreInit == Init /\ db = "None"

NoStoreNext ==
  \/ Login
  \/ CreateResource
  \/ ListResources
  \/ ListPending
  \/ ApproveResource
  \/ Respond

NoStoreSpec == NoStoreInit /\ [][NoStoreNext]_vars

(***************************************************************************)
(* Approvals in flight at the same time. approve_resource is a coroutine   *)
(* whose store calls are plain (blocking) pymongo calls; its one await is  *)
(* the broadcast at the end. A request runs from its start to that await   *)
(* in one step of the event loop, and another request may run before it    *)
(* is resumed.                                                             *)
(***************************************************************************)
\* the request of client c is over with this answer
Finish(c, answer) ==
  tasks' = [ tasks EXCEPT ![c] = [ pc |-> "done", resp |-> answer ] ]

\* approve_resource from its start up to "await broadcaster.broadcast(...)"
approve_resource_call(c, resource_id, payload) ==
  LET id   == oid(resource_id)
      doc  == find_one(resource, [ _id |-> id.value ])
  IN
  /\ tasks[c] = NoTask
  /\ IF db = "None"
       THEN /\ Finish(c, Failed("approve_resource", payload, 500))
            /\ UNCHANGED << resource, notification >>
     ELSE IF ~id.ok
       THEN /\ Finish(c, Failed("approve_resource", payload, 400))
            /\ UNCHANGED << resource, notification >>
     ELSE IF doc = None
       THEN /\ Finish(c, Failed("approve_resource", payload, 404))
            /\ UNCHANGED << resource, notification >>
     ELSE IF AlreadyApproved(doc[1])
       THEN /\ Finish(c, Ok("approve_resource", payload, clean(doc[1])))
            /\ UNCHANGED << resource, notification >>
     ELSE
       LET rcol    == update_one(resource, [ _id |-> doc[1]._id ],
                                 ApprovalUpdate(payload))
           updated == find_one(rcol, [ _id |-> doc[1]._id ])[1]
           notif   == NotificationSchema("resource_approved",
                        ApprovedMessage(updated.title), str(updated._id),
                        payload.approved_by, updated.semester,
                        updated.subject)
           message == [ event |-> "resource_approved",
                        resource_id |-> str(updated._id) ]
       IN  /\ resource' = rcol
           /\ notification' = create_document(notification, notif).coll
           /\ tasks' = [ tasks EXCEPT ![c] =
                           [ pc |-> "await_broadcast", request |-> payload,
                             message |-> message, updated |-> updated ] ]
  /\ UNCHANGED << db, authVars, hubVars, resp, castVars >>

\* approve_resource from the await to its return
approve_resource_resume(c, failing) ==
  /\ tasks[c].pc = "await_broadcast"
  /\ LET sent == broadcast(subscribers, queues, tasks[c].message, failing)
     IN  /\ queues' = sent.queues
         /\ bcasts' = Append(bcasts, tasks[c].message)
         /\ snapshot' = subscribers
         /\ putFailed' = failing
         /\ Finish(c, AfterBroadcast("approve_resource", tasks[c].request,
                                     sent.raised, tasks[c].updated))
  /\ UNCHANGED << db, storeVars, subscribers, pc, delivered, subAt,
                  unsubCalls, resp >>

\* the answer of a finished request goes to its client
TaskRespond(c) ==
  /\ tasks[c].pc = "done"
  /\ tasks' = [ tasks EXCEPT ![c] = NoTask ]
  /\ UNCHANGED << db, storeVars, hubVars, resp, castVars >>

ApproveCall ==
  \E c \in Clients, id \in ResourceIdParams, p \in ApproveRequests :
    approve_resource_call(c, id, p)

ApproveResume == \E c \in Clients : approve_resource_resume(c, {})

ApproveRaceNext ==
  \/ CreateResource
  \/ Respond
  \/ \E s \in Streams : OpenStream(s)
  \/ ApproveCall
  \/ ApproveResume
  \/ \E c \in Clients : TaskRespond(c)

ApproveRaceSpec == Init /\ [][ApproveRaceNext]_vars

(***************************************************************************)
(* Logins in flight at the same time. login is a plain def, which FastAPI  *)
(* runs in a worker thread: the threads of two requests interleave between *)
(* their store calls.                                                      *)
(***************************************************************************)
\* login up to and with users.find_one({"email": payload.email})
login_find(c, payload) ==
  /\ tasks[c] = NoTask
  /\ IF db = "None"
       THEN Finish(c, Failed("login", payload, 503))
       ELSE tasks' = [ tasks EXCEPT ![c] =
                        [ pc |-> "found", payload |-> payload,
                          existing |-> find_one(user, LoginLookup(payload)) ] ]
  /\ UNCHANGED << db, storeVars, hubVars, resp, castVars >>

\* "if existing:" update_one and return; else create_document
login_write(c) ==
  /\ tasks[c].pc = "found"
  /\ LET payload  == tasks[c].payload
         existing == tasks[c].existing
         doc      == UserDoc(payload)
     IN  /\ IF existing # None
              THEN /\ user' = update_one(user, [ _id |-> existing[1]._id ], doc)
                   /\ Finish(c, Ok("login", payload,
                                    clean(SetFields(existing[1], doc))))
              ELSE LET created == create_document(user, doc)
                   IN  /\ user' = created.coll
                       /\ tasks' = [ tasks EXCEPT ![c] =
                                       [ pc |-> "created", payload |-> payload,
                                         created_id |-> created.id ] ]
         /\ lastLogin' = [ lastLogin EXCEPT ![payload.email] = Some(payload) ]
  /\ UNCHANGED << db, resource, notification, hubVars, resp, castVars >>

\* new_doc = users.find_one({"_id": ObjectId(created_id)}); return
login_read_back(c) ==
  /\ tasks[c].pc = "created"
  /\ LET new_doc == find_one(user, [ _id |-> ObjectId(tasks[c].created_id) ])
     IN  Finish(c, Ok("login", tasks[c].payload, clean(new_doc[1])))
  /\ UNCHANGED << db, storeVars, hubVars, resp, castVars >>

LoginFind == \E c \in Clients, p \in RacingLoginRequests : login_find(c, p)
LoginWrite == \E c \in Clients : login_write(c)
LoginReadBack == \E c \in Clients : login_read_back(c)

LoginRaceNext ==
  \/ LoginFind
  \/ LoginWrite
  \/ LoginReadBack
  \/ \E c \in Clients : TaskRespond(c)

LoginRaceSpec == Init /\ [][LoginRaceNext]_vars

(***************************************************************************)
(* The program with puts that raise: any of the puts of a broadcast may    *)
(* raise an Exception, which is what the try/except in broadcast is for.   *)
(***************************************************************************)
CreateResourceFaulty ==
  /\ Idle
  /\ \E p \in CreateResourceRequests, failing \in SUBSET Range(subscribers) :
       create_resource(p, failing)

ApproveResourceFaulty ==
  /\ Idle
  /\ \E id \in ResourceIdParams, p \in ApproveRequests,
        failing \in SUBSET Range(subscribers) :
       approve_resource(id, p, failing)

FaultNext ==
  \/ CreateResourceFaulty
  \/ ApproveResourceFaulty
  \/ \E s \in Streams : OpenStream(s)
  \/ \E s \in Streams : TakeEvent(s)
  \/ \E s \in Streams : CancelStream(s)
  \/ \E s \in Streams : FailStream(s)
  \/ \E s \in Streams : CloseStream(s)
  \/ Respond

FaultSpec == Init /\ [][FaultNext]_vars

(***************************************************************************)
(* Properties.                                                             *)
(***************************************************************************)
Last(seq) == seq[Len(seq)]

\* this step is one call of broadcast
BroadcastStep == Len(bcasts') = Len(bcasts) + 1

\* the i-th message stream s has yielded
Yielded(s, i) == delivered[s][i][2]

\* the messages stream s has yielded, in order
Taken(s) == [ i \in 1..Len(delivered[s]) |-> delivered[s][i][2] ]

\* everything put on the queue of s so far, in order
Received(s) == Taken(s) \o queues[s]

\* C1 (fan-out): a call broadcast(E) appends E exactly once to the queue of
\* every channel registered at the call (subscribed and not yet
\* unsubscribed), and touches no other queue.
C1_FanOutExactlyOnce ==
  [][ BroadcastStep =>
        \A s \in Streams :
          queues'[s] = IF pc[s] = "open"
                         THEN Append(queues[s], Last(bcasts'))
                         ELSE queues[s] ]_vars

\* C1 witness: a broadcast has just served two registered channels.
C1_Witness ==
  /\ bcasts # << >>
  /\ Len(snapshot) = 2
  /\ \A s \in Range(snapshot) :
       /\ pc[s] = "open"
       /\ queues[s] # << >>
       /\ Last(queues[s]) = Last(bcasts)

\* C2 (approval idempotence): approve_resource on a resource already stored
\* as approved answers 200 with the stored document as it is and changes
\* neither the store nor the hub: no update, no notification, no broadcast.
C2_ApproveIdempotent ==
  [][ \A id \in ResourceIdParams, p \in ApproveRequests :
        ( /\ resp'.op = "approve_resource"
          /\ oid(id).ok
          /\ find_one(resource, [ _id |-> oid(id).value ]) # None
          /\ find_one(resource, [ _id |-> oid(id).value ])[1].status
               = "approved"
          /\ approve_resource(id, p, {}) )
        => /\ UNCHANGED << db, tasks, storeVars, hubVars, castVars >>
           /\ resp' = Ok("approve_resource", p,
                         clean(find_one(resource',
                                        [ _id |-> oid(id).value ])[1])) ]_vars

\* C2 witness: an approve request by one moderator was answered with the
\* document as approved by the other one.
C2_Witness ==
  /\ resp.op = "approve_resource"
  /\ resp.code = 200
  /\ resp.body[1].status = "approved"
  /\ resp.body[1].approved_by # Some(resp.request.approved_by)
  /\ Len(notification) = 2
  /\ Len(bcasts) = 2

\* C3 (status invariant): a resource enters the store with status pending,
\* in a create_resource step; a stored status changes only in an
\* approve_resource step and only from pending to approved; no resource
\* leaves the store.
C3_StatusLifecycle ==
  [][ /\ Len(resource') >= Len(resource)
      /\ \A i \in 1..Len(resource') :
           IF i > Len(resource)
             THEN /\ resource'[i].status = "pending"
                  /\ \E p \in CreateResourceRequests : create_resource(p, {})
             ELSE resource'[i].status # resource[i].status
                    => /\ resource[i].status = "pending"
                       /\ resource'[i].status = "approved"
                       /\ \E id \in ResourceIdParams, p \in ApproveRequests :
                            approve_resource(id, p, {}) ]_vars

\* C3 witness: approve_resource has just moved a resource to approved.
C3_Witness ==
  /\ resp.op = "approve_resource"
  /\ resp.code = 200
  /\ resp.body[1].approved_by = Some(resp.request.approved_by)
  /\ \E i \in 1..Len(resource) : resource[i].status = "approved"

\* C4 (per-channel order): the broadcast events a stream yields come in the
\* order of their broadcast calls, so two streams that yield the same two
\* events yield them in the same order.
C4_DeliveryOrder ==
  /\ \A s \in Streams :
       \A j \in 2..Len(delivered[s]) : \A i \in 1..(j - 1) :
         ( Yielded(s, i) # ConnectedEvent /\ Yielded(s, j) # ConnectedEvent )
         => \E b \in 2..Len(bcasts) :
              /\ bcasts[b] = Yielded(s, j)
              /\ \E a \in 1..(b - 1) : bcasts[a] = Yielded(s, i)
  /\ \A s, t \in Streams :
       \A j \in 2..Len(delivered[s]) : \A i \in 1..(j - 1) :
         ( Yielded(s, i) # ConnectedEvent /\ Yielded(s, j) # ConnectedEvent )
         => \A k, l \in 1..Len(delivered[t]) :
              ( Yielded(t, k) = Yielded(s, i) /\ Yielded(t, l) = Yielded(s, j) )
              => k < l

\* C4 witness: a stream has yielded two broadcast events.
C4_Witness ==
  \E s \in Streams : \E i, j \in 1..Len(delivered[s]) :
    /\ i < j
    /\ Yielded(s, i) = bcasts[1]
    /\ Yielded(s, j) = bcasts[2]

\* C5 (late-subscribe isolation): when subscribe returns, the new queue holds
\* the connected event and nothing else; of all a channel ever receives, the
\* first event is connected, no later one is, and none is an event whose
\* broadcast came before the subscribe.
LateSubscribeIsolation ==
  \A s \in Streams :
    pc[s] = "open" =>
      /\ Received(s) # << >>
      /\ Received(s)[1] = ConnectedEvent
      /\ \A i \in 2..Len(Received(s)) :
           /\ Received(s)[i] # ConnectedEvent
           /\ \A k \in 1..subAt[s] : bcasts[k] # Received(s)[i]

C5_SubscribeIsolation ==
  [][ /\ \A s \in Streams :
           ( pc[s] = "new" /\ pc'[s] = "open" )
           => queues'[s] = << ConnectedEvent >>
      /\ LateSubscribeIsolation' ]_vars

\* C5 witness: a stream opened after a broadcast has yielded connected and
\* then a later event.
C5_Witness ==
  \E s \in Streams :
    /\ pc[s] = "open"
    /\ subAt[s] >= 1
    /\ Len(delivered[s]) >= 2
    /\ Taken(s)[1] = ConnectedEvent
    /\ Taken(s)[2] = bcasts[subAt[s] + 1]

\* C6 (cleanup on disconnect): once unsubscribe(c) has run, c is not in the
\* subscriber list, and every later broadcast returns without an error,
\* puts nothing on c and serves every channel still registered.
C6_UnsubscribedNotServed ==
  [][ \A s \in Streams :
        /\ unsubCalls[s] >= 1 =>
             /\ s \notin Range(subscribers)
             /\ BroadcastStep =>
                  /\ queues'[s] = queues[s]
                  /\ resp'.code = 200
                  /\ \A t \in Range(subscribers) :
                       queues'[t] = Append(queues[t], Last(bcasts'))
        /\ unsubCalls'[s] >= 1 => s \notin Range(subscribers') ]_vars

\* C6 witness: a broadcast made after stream 1 unsubscribed has served
\* stream 2 and left the queue of stream 1 alone.
C6_Witness ==
  /\ unsubCalls[1] = 1
  /\ bcasts # << >>
  /\ 2 \in Range(snapshot)
  /\ 1 \notin Range(snapshot)
  /\ queues[1] = << >>
  /\ queues[2] # << >>
  /\ Last(queues[2]) = Last(bcasts)
  /\ resp.code = 200

\* C9 (cleanup runs once): a stream that has ended, however its loop was
\* left, has had unsubscribe run exactly once for its queue, which is no
\* longer registered; a stream still open is registered and has had none.
C9_UnsubscribeOncePerStream ==
  \A s \in Streams :
    /\ pc[s] = "done" => unsubCalls[s] = 1 /\ s \notin Range(subscribers)
    /\ pc[s] = "open" => unsubCalls[s] = 0 /\ s \in Range(subscribers)
    /\ pc[s] = "new" => unsubCalls[s] = 0 /\ s \notin Range(subscribers)

\* C9 witness: one stream has ended while another is still registered.
C9_Witness ==
  \E s, t \in Streams :
    /\ pc[s] = "done"
    /\ unsubCalls[s] = 1
    /\ pc[t] = "open"
    /\ t \in Range(subscribers)

C8_LoginUpsert ==
  \A e \in LoginEmails :
    LET records == { i \in 1..Len(user) : user[i].email = e }
    IN  IF lastLogin[e] = None
          THEN records = {}
          ELSE /\ Cardinality(records) = 1
               /\ \A i \in records :
                    /\ user[i].name = lastLogin[e][1].name
                    /\ user[i].role = lastLogin[e][1].role
                    /\ user[i].semester = lastLogin[e][1].semester

\* C8 witness: with two users stored, the first of them has logged in again
\* under the other name and was answered with its record.
C8_Witness ==
  /\ Len(user) = 2
  /\ resp.op = "login"
  /\ resp.code = 200
  /\ resp.body[1].id = str(1)
  /\ resp.body[1].name = "Bea"
  /\ user[1].name = "Bea"
  /\ user[2].name = "Ann"
  /\ user[1].email # user[2].email

\* C10 (best-effort fan-out): in a broadcast where the put on some
\* registered channel raises, every registered channel whose put does not
\* raise still gets the event exactly once, whether it comes before or after
\* the failing one, no other queue changes, and broadcast returns: the
\* handler that called it answers 200.
C10_BestEffortFanOut ==
  [][ BroadcastStep =>
        /\ \A s \in Streams :
             queues'[s] = IF pc[s] = "open" /\ s \notin putFailed'
                            THEN Append(queues[s], Last(bcasts'))
                            ELSE queues[s]
        /\ resp'.code = 200 ]_vars

\* C10 witness: the put on the first channel of the snapshot raised and the
\* second channel got the event.
C10_Witness ==
  /\ Len(snapshot) = 2
  /\ putFailed = { snapshot[1] }
  /\ queues[snapshot[2]] # << >>
  /\ Last(queues[snapshot[2]]) = Last(bcasts)
  /\ \A i \in 1..Len(Received(snapshot[1])) :
       Received(snapshot[1])[i] # Last(bcasts)
  /\ resp.code = 200

\* a stored resource agrees with the semester and subject filters given
MatchesFilters(doc, request) ==
  /\ request.semester # None => doc.semester = request.semester[1]
  /\ Truthy(request.subject) => doc.subject = request.subject[1]

\* the answer lists the stored document
Listed(answer, doc) ==
  /\ answer.body # None
  /\ \E i \in 1..Len(answer.body[1]) : answer.body[1][i] = clean(doc)

\* the stored resources that agree with the filters and have the status
Eligible(request, status) ==
  { i \in 1..Len(resource) :
      MatchesFilters(resource[i], request) /\ resource[i].status = status }

\* C11 (listings follow the stored status): of the stored resources that
\* agree with the semester and subject filters given, GET /resources/pending
\* lists those whose stored status is pending and no other, and GET /resources
\* with status=approved (no uploader filter) lists those whose stored status
\* is approved and no other, as far as the limit of the request allows.
C11_ListingsFollowStatus ==
  [][ /\ resp'.op = "list_pending" =>
           \A i \in 1..Len(resource) :
             MatchesFilters(resource[i], resp'.request) =>
               /\ Listed(resp', resource[i]) => resource[i].status = "pending"
               /\ ( /\ resource[i].status = "pending"
                     /\ Cardinality(Eligible(resp'.request, "pending"))
                          <= PendingLimit )
                  => Listed(resp', resource[i])
      /\ ( /\ resp'.op = "list_resources"
            /\ resp'.request.status = "approved"
            /\ resp'.request.uploaded_by = None ) =>
           \A i \in 1..Len(resource) :
             MatchesFilters(resource[i], resp'.request) =>
               /\ Listed(resp', resource[i]) => resource[i].status = "approved"
               /\ ( /\ resource[i].status = "approved"
                     /\ Cardinality(Eligible(resp'.request, "approved"))
                          <= resp'.request.limit[1] )
                  => Listed(resp', resource[i]) ]_vars

\* C11 witness: GET /resources?status=approved&semester=3 has just listed an
\* approved resource of semester 3.
C11_Witness ==
  /\ resp.op = "list_resources"
  /\ resp.code = 200
  /\ resp.request.status = "approved"
  /\ resp.request.semester = Some(3)
  /\ resp.request.uploaded_by = None
  /\ Len(resp.body[1]) >= 1
  /\ resp.body[1][1].status = "approved"
  /\ \E i \in 1..Len(resource) :
       resource[i].status = "approved" /\ clean(resource[i]) = resp.body[1][1]

\* C12 (unsubscribe of an unregistered channel): a call unsubscribe(q)
\* returns without an exception and leaves every queue's content as it is;
\* when q is not registered at the call (never subscribed, or unsubscribed
\* before) the subscriber list stays as it is too; after any call q is not
\* registered and every other queue is registered as before, so a second
\* call changes nothing the first did not.
C12_UnsubscribeNoOp ==
  [][ resp'.op = "unsubscribe" =>
        LET q == resp'.request
        IN  /\ ~resp'.raised
            /\ queues' = queues
            /\ q \notin Range(subscribers')
            /\ q \notin Range(subscribers) => subscribers' = subscribers
            /\ \A i \in 1..Len(subscribers') :
                 \E j \in i..Len(subscribers) : subscribers[j] = subscribers'[i]
            /\ \A t \in Range(subscribers) \ {q} : t \in Range(subscribers') ]_vars

\* C12 witness: unsubscribe has returned a second time for a queue that was
\* never registered, while a registered queue keeps its place and the
\* broadcast event it holds.
C12_Witness ==
  /\ resp.op = "unsubscribe"
  /\ ~resp.raised
  /\ \E q, t \in Streams :
       /\ q = resp.request
       /\ pc[q] = "new"
       /\ unsubCalls[q] = 2
       /\ t \in Range(subscribers)
       /\ bcasts # << >>
       /\ queues[t] = << ConnectedEvent, bcasts[1] >>

\* the path parameter is the id of no stored resource
Unknown(id) == \A i \in 1..Len(resource) : str(resource[i]._id) # id

\* C13 (approve with a bad id): with the store configured, approve_resource
\* answers 404 for a well-formed id that no stored resource has and 400 for
\* a malformed id, and in both cases changes no resource, stores no
\* notification and broadcasts nothing.
C13_ApproveBadId ==
  [][ ( resp'.op = "approve_resource" /\ db = "mongo" ) =>
        \A id \in ResourceIdParams :
          ( Unknown(id) /\ approve_resource(id, resp'.request, {}) )
          => /\ resp'.code = IF IsObjectIdText(id) THEN 404 ELSE 400
             /\ resp'.body = None
             /\ resource' = resource
             /\ notification' = notification
             /\ bcasts' = bcasts
             /\ queues' = queues ]_vars

\* C13 witness: with a pending resource stored and a stream open, an approve
\* request for an unknown well-formed id was answered 404 and the resource
\* is still pending.
C13_Witness ==
  /\ resp.op = "approve_resource"
  /\ resp.code = 404
  /\ Len(resource) = 1
  /\ resource[1].status = "pending"
  /\ Len(notification) = 1
  /\ Len(bcasts) = 1
  /\ \E s \in Streams : queues[s] = << ConnectedEvent, bcasts[1] >>

\* C14 (one resource, one notification, one broadcast per upload): a
\* create_resource call answered 200 adds exactly one resource, appends
\* exactly one notification, of type resource_created and with the new
\* resource's id, and makes exactly one broadcast, of a resource_created
\* event with that id and the title; and no step of any operation changes
\* or removes a notification already stored.
C14_CreateOnceEach ==
  [][ /\ ( resp'.op = "create_resource" /\ resp'.code = 200 ) =>
           LET rid == resp'.body[1].id
           IN  /\ Len(resource') = Len(resource) + 1
               /\ SubSeq(resource', 1, Len(resource)) = resource
               /\ str(Last(resource')._id) = rid
               /\ \A i \in 1..Len(resource) : str(resource[i]._id) # rid
               /\ Len(notification') = Len(notification) + 1
               /\ Last(notification').type = "resource_created"
               /\ Last(notification').resource_id = Some(rid)
               /\ bcasts' = Append(bcasts,
                               [ event |-> "resource_created",
                                 resource_id |-> rid,
                                 title |-> resp'.request.title ])
      /\ Len(notification') >= Len(notification)
      /\ SubSeq(notification', 1, Len(notification)) = notification ]_vars

\* C14 witness: after an upload and its approval the store holds the
\* resource_created notification of the upload unchanged, followed by the
\* resource_approved one.
C14_Witness ==
  /\ Len(resource) = 1
  /\ Len(notification) = 2
  /\ notification[1].type = "resource_created"
  /\ notification[1].resource_id = Some(str(resource[1]._id))
  /\ notification[2].type = "resource_approved"
  /\ Len(bcasts) = 2
  /\ bcasts[1] = [ event |-> "resource_created",
                   resource_id |-> str(resource[1]._id),
                   title |-> resource[1].title ]

\* C15 (stored users are valid): every record of the user collection has a
\* role among student, teacher and admin and a semester that is absent or
\* within 1..8. (The code stores the login payload as it comes: this
\* does not hold of it.)
C15_StoredUsersValid ==
  \A i \in 1..Len(user) : UserSchemaValid(user[i].role, user[i].semester)

\* HTTP status codes of the 4xx class
ClientError == 400..499

\* C16 (upload with a semester out of range): a create_resource request
\* whose semester is outside 1..8 is answered with a client error, and it
\* stores no resource and no notification and broadcasts nothing. (The code
\* answers 500: this does not hold of it.)
C16_BadSemesterClientError ==
  [][ ( /\ resp'.op = "create_resource"
        /\ ( resp'.request.semester < SemesterMin
              \/ resp'.request.semester > SemesterMax ) )
      => /\ resp'.code \in ClientError
         /\ resource' = resource
         /\ notification' = notification
         /\ bcasts' = bcasts
         /\ queues' = queues ]_vars

\* C17 (no store configured): with db None, login, list_resources and
\* approve_resource each answer 503 and write and broadcast nothing. (The
\* code's approve_resource answers 500: this does not hold of the code.)
C17_NoStoreUnavailable ==
  [][ ( /\ db = "None"
        /\ resp'.op \in { "login", "list_resources", "approve_resource" } )
      => /\ resp'.code = 503
         /\ UNCHANGED << storeVars, queues, bcasts >> ]_vars

\* the stored resource_approved notifications for resource id (a text)
ApprovedNotifications(id) ==
  { i \in 1..Len(notification) :
      /\ notification[i].type = "resource_approved"
      /\ notification[i].resource_id = Some(id) }

\* the broadcasts of a resource_approved event for resource id (a text)
ApprovedBroadcasts(id) ==
  { k \in 1..Len(bcasts) :
      bcasts[k] = [ event |-> "resource_approved", resource_id |-> id ] }

\* C18 (approvals in flight together): however approve_resource requests
\* for a resource interleave at the handler's await, the store holds at
\* most one resource_approved notification for the resource (exactly one
\* once its status is approved, none before), at most one resource_approved
\* event for it is broadcast, and the stored approved_by is that of the
\* request that stored the notification.
C18_OneApprovalPerResource ==
  \A r \in 1..Len(resource) :
    LET id == str(resource[r]._id)
    IN  /\ Cardinality(ApprovedNotifications(id))
             = IF resource[r].status = "approved" THEN 1 ELSE 0
        /\ Cardinality(ApprovedBroadcasts(id)) <= 1
        /\ ApprovedBroadcasts(id) # {} => resource[r].status = "approved"
        /\ \A i \in ApprovedNotifications(id) :
             resource[r].approved_by = notification[i].created_by

\* C18 witness: while the first approval waits at its await, a second
\* request by another moderator for the same resource has been answered
\* with the resource as the first one approved it.
C18_Witness ==
  \E c, d \in Clients :
    /\ tasks[c].pc = "await_broadcast"
    /\ tasks[d].pc = "done"
    /\ tasks[d].resp.code = 200
    /\ tasks[d].resp.body[1].id = tasks[c].message.resource_id
    /\ tasks[d].resp.body[1].approved_by = Some(tasks[c].request.approved_by)
    /\ tasks[d].resp.request.approved_by # tasks[c].request.approved_by
    /\ Cardinality(ApprovedNotifications(tasks[c].message.resource_id)) = 1

\* C19 (logins in flight together): the user collection never holds more
\* than one record for an email. (Two logins that both look the email up
\* before either inserts both insert: this does not hold of the code.)
C19_OneUserPerEmail ==
  \A i, j \in 1..Len(user) : user[i].email = user[j].email => i = j

\* the store holds what the event m tells of: the resource, a notification
\* of the event's type for it, and for an approval the status approved
Persisted(m) ==
  /\ \E r \in 1..Len(resource) :
       /\ str(resource[r]._id) = m.resource_id
       /\ m.event = "resource_approved" => resource[r].status = "approved"
  /\ \E n \in 1..Len(notification) :
       /\ notification[n].type = m.event
       /\ notification[n].resource_id = Some(m.resource_id)

\* C20 (persist precedes broadcast): every resource_created or
\* resource_approved event that a queue holds or a stream has yielded is
\* about a resource the store holds, with a stored notification of the
\* event's type for that resource, and for resource_approved the stored
\* status of the resource is approved.
C20_PersistBeforeBroadcast ==
  \A s \in Streams :
    /\ \A i \in 1..Len(queues[s]) :
         queues[s][i] # ConnectedEvent => Persisted(queues[s][i])
    /\ \A i \in 1..Len(delivered[s]) :
         Yielded(s, i) # ConnectedEvent => Persisted(Yielded(s, i))

\* C20 witness: one stream has yielded the resource_approved event of a
\* resource while the queue of another still holds it.
C20_Witness ==
  \E s, t \in Streams :
    /\ s # t
    /\ Len(delivered[s]) = 3
    /\ Yielded(s, 3).event = "resource_approved"
    /\ Len(queues[t]) >= 1
    /\ Last(queues[t]) = Yielded(s, 3)
    /\ Persisted(Yielded(s, 3))

====
